---------------------------- MODULE Spec2Model ----------------------------
(***************************************************************************)
(* Port-Hamiltonian training of neural-network weights.                    *)
(*                                                                         *)
(*   numpy_simple.py : simple_net, loss, loss_batch, ham_mod_batch, train, *)
(*                     test  (low-level 2-class linear predictor)          *)
(*   phnn.py         : class PHNN (state codec, gradient, F matrix, fit)   *)
(*   predictors.py   : class MLP (a list of nn.Linear layers)              *)
(*                                                                         *)
(* Numbers are integers; a Python float quotient p/q is kept as the exact   *)
(* fraction [num |-> p, den |-> q].  Python indices are 0-based and kept    *)
(* so in the loop variables; sequences are 1-based.                        *)
(***************************************************************************)
EXTENDS Integers, Sequences, FiniteSets, TLC

VARIABLES
    prog,       \* what runs: "train" (numpy_simple.train), "fit" (PHNN.fit),
                \* "forward" (PHNN.forward calls), "F" (structure matrices), "test"
    pc,         \* position in it
    \* ---- numpy_simple.train: arguments (epochs, hparams and t also serve PHNN)
    X, y, bs, epochs, x0arg, hparams, t,
    \* ---- numpy_simple.train: locals (i, i_it, sol also serve PHNN.fit)
    N_batch, xf, tf, J, xep, Jep, x0, i, j, i_it, j_it, sol,
    \* ---- the external integrator: its (unknown, fixed) flow and the log of its calls
    flow, calls,
    \* ---- class PHNN: attributes
    predictor, flat_w, flat_wdot, beta, xi, count, time,
    dJ, dJddw, flat_dJ, flat_dJddw, fixedxy,
    dxdt,       \* value returned by the last forward()
    last,       \* the last state update: its argument, the attributes before it, what it raised
    \* ---- PHNN.fit: arguments and locals
    loader, iter_accuracy, e, e_it, reports,
    \* ---- structure matrices built by makeFMatrix and ham_mod_batch
    Fs, Fd,
    \* ---- numpy_simple.test: arguments and result
    tx, tXh, tyh, accuracy

trainArgs == <<X, y, bs, epochs, x0arg, hparams, t>>
trainLocals == <<N_batch, xf, tf, J, xep, Jep, x0, i, j, i_it, j_it, sol>>
phnnObj == <<predictor, flat_w, flat_wdot, beta, xi, count, time,
             dJ, dJddw, flat_dJ, flat_dJddw, fixedxy, dxdt, last>>
fitVars == <<loader, iter_accuracy, e, e_it, reports>>
fVars == <<Fs, Fd>>
testVars == <<tx, tXh, tyh, accuracy>>
vars == <<prog, pc, trainArgs, trainLocals, flow, calls, phnnObj, fitVars, fVars, testVars>>

(***************************************************************************)
(* Bounds of the model.                                                    *)
(***************************************************************************)
MaxN == 10         \* samples in the data set
MaxBs == 4         \* batch size
MaxEpochs == 2     \* epochs
MaxT == 2          \* points of the integration time grid t

(***************************************************************************)
(* Helpers on sequences (numpy slicing and stacking).                      *)
(***************************************************************************)
Last(s) == s[Len(s)]

RECURSIVE SumSeq(_)
SumSeq(s) == IF s = <<>> THEN 0 ELSE s[1] + SumSeq(Tail(s))

Dot(v, w) == SumSeq([k \in 1..Len(v) |-> v[k] * w[k]])

\* s[lo:-1] for lo >= 0
SliceToLast(s, lo) == SubSeq(s, lo + 1, Len(s) - 1)

(***************************************************************************)
(* numpy_simple.py: network and loss.                                      *)
(***************************************************************************)
simple_net(u, w) ==
    << w[1] * u[1] + w[2] * u[2] + w[3],
       w[4] * u[1] + w[5] * u[2] + w[6] >>

loss(x, u, yh, a, b, c) ==
    LET n  == Len(x) \div 2
        w  == SubSeq(x, 1, n)
        dw == SubSeq(x, n + 1, 2 * n)
        yy == simple_net(u, w)
        Jv == << yh[1] - yy[1], yh[2] - yy[2] >>
    IN  a * Dot(Jv, Jv) + b * Dot(dw, dw) + c * Dot(w, w)

\* J_tot/bs, kept as a fraction
loss_batch(bsz, x, U, Yh, a, b, c) ==
    [ num |-> SumSeq([k \in 1..bsz |-> loss(x, U[k], Yh[k], a, b, c)]),
      den |-> bsz ]

(***************************************************************************)
(* Data.  X is N rows <<u1, u2>>, y is N one-hot rows.                      *)
(***************************************************************************)
DataX(n) == [s \in 1..n |-> << s % 3, (s \div 2) % 2 >>]
DataY(n) == [s \in 1..n |-> IF s % 2 = 0 THEN <<1, 0>> ELSE <<0, 1>>]

\* The 12-component state vectors the model draws from; Vec(1, 1) is the
\* all-ones row that train uses as a placeholder.
Vec(p, q) == [k \in 1..12 |-> IF k <= 6 THEN p ELSE q]
Ones12 == [k \in 1..12 |-> 1]
StateVecs == { Vec(p, q) : p \in 0..1, q \in 0..1 }
Flows == {1, 2}
HParamSets == { <<1, 1, 0>>, <<1, 2, 1>> }

(***************************************************************************)
(* train, lines 135-138: batching.                                         *)
(***************************************************************************)
NBatch(n_tot, bsz) == n_tot \div bsz

\* a reshape that drops the rows left over
ReshapeTruncating(n_tot, nb, bsz) == nb * bsz * 2 <= n_tot * 2

\* X.reshape(N_batch, bs, 2) on an (N, 2) array: numpy raises ValueError
\* unless the element counts agree.
ReshapeOK(n_tot, nb, bsz) == nb * bsz * 2 = n_tot * 2

\* Ub[ib] (0-based ib): rows ib*bs .. ib*bs+bs-1 of the data, in order
BatchRows(D, bsz, ib) == [k \in 1..bsz |-> D[ib * bsz + k]]

(***************************************************************************)
(* The integrator (scipy odeint), line 150.  It returns one row per point  *)
(* of t, the first being the start state; the later rows are the flow of   *)
(* the batch's vector field, which the model leaves abstract: an unknown   *)
(* map fixed for the run (flow) that depends on the state and the batch.   *)
(***************************************************************************)
VecIndex(x) == 2 * x[1] + x[7]
VecAt(n) == Vec((n \div 2) % 2, n % 2)
FlowStep(f, x, U) == VecAt((VecIndex(x) + f + U[1][1]) % 4)

RECURSIVE OdeRows(_, _, _, _)
OdeRows(f, start, U, len) ==
    IF len <= 1 THEN << start >>
    ELSE LET prev == OdeRows(f, start, U, len - 1)
         IN  Append(prev, FlowStep(f, Last(prev), U))

odeint(f, start, tt, U) == OdeRows(f, start, U, Len(tt))

(***************************************************************************)
(* phnn.py / predictors.py: tensors and the predictor.                     *)
(* A tensor is [shape, at]: shape is <<d1>> or <<d1, d2>> and at maps each  *)
(* index tuple (1-based) to its value.  The predictor is the sequence of   *)
(* its parameter tensors in parameters()/state_dict() order, each with its *)
(* .grad (None until a backward pass).                                     *)
(***************************************************************************)
None == "None"
\* a parameter's .grad before any backward pass
NoGrad == <<>>
\* the record of state updates before the first one
NoUpdate == [arg |-> <<>>, w |-> <<>>, wdot |-> <<>>, pred |-> <<>>, raised |-> "no call"]

Numel(shape) == IF Len(shape) = 1 THEN shape[1] ELSE shape[1] * shape[2]

Indices(shape) ==
    IF Len(shape) = 1 THEN { <<a>> : a \in 1..shape[1] }
    ELSE { <<a, b>> : a \in 1..shape[1], b \in 1..shape[2] }

\* position (1-based) of an element in the contiguous row-major storage
RowMajor(shape, ix) ==
    IF Len(shape) = 1 THEN ix[1] ELSE (ix[1] - 1) * shape[2] + ix[2]

\* tensor.view(-1)
ViewFlat(shape, at) ==
    [k \in 1..Numel(shape) |-> at[CHOOSE ix \in Indices(shape) : RowMajor(shape, ix) = k]]

\* flat.view(shape), for a flat sequence of Numel(shape) elements
ViewAs(flat, shape) == [ix \in Indices(shape) |-> flat[RowMajor(shape, ix)]]

\* s[lo:hi] with Python's clamping, 0 <= lo <= hi
PySlice(s, lo, hi) ==
    LET h == IF hi > Len(s) THEN Len(s) ELSE hi
    IN  IF lo >= h THEN <<>> ELSE SubSeq(s, lo + 1, h)

RECURSIVE Concat(_)
Concat(ss) == IF ss = <<>> THEN <<>> ELSE ss[1] \o Concat(Tail(ss))

\* predictors.py 60-61: MLP(dense_layers) holds Linear(d[l], d[l+1]) layers;
\* each contributes weight (out, in) then bias (out)
MLPShapes(dense) ==
    Concat([l \in 1..(Len(dense) - 1) |->
              << << dense[l + 1], dense[l] >>, << dense[l + 1] >> >>])

Shapes(pred) == [p \in 1..Len(pred) |-> pred[p].shape]

\* phnn.py 123-128
flattenParamVector(pred) ==
    Concat([p \in 1..Len(pred) |-> ViewFlat(pred[p].shape, pred[p].at)])

\* offset k of parameter p in makeStateDict's loop (k += num_el)
RECURSIVE OffsetOf(_, _)
OffsetOf(shapes, p) ==
    IF p <= 1 THEN 0 ELSE OffsetOf(shapes, p - 1) + Numel(shapes[p - 1])

\* a makeStateDict whose offset k is never advanced
StateSliceNoAdvance(shapes, w, p) == PySlice(w, 0, Numel(shapes[p]))

\* phnn.py 182-189: the slice of flat_w for parameter p
StateSlice(shapes, w, p) ==
    PySlice(w, OffsetOf(shapes, p), OffsetOf(shapes, p) + Numel(shapes[p]))

\* view(shape) raises RuntimeError when the slice is too short
makeStateDictOK(shapes, w) ==
    \A p \in 1..Len(shapes) : Len(StateSlice(shapes, w, p)) = Numel(shapes[p])

makeStateDict(shapes, w) ==
    [p \in 1..Len(shapes) |-> ViewAs(StateSlice(shapes, w, p), shapes[p])]

\* phnn.py 171-173: the second slice uses the length of the NEW flat_w
assignNewState_w(w, v) == PySlice(v, 0, Len(w))
assignNewState_wdot(w, v) ==
    LET nw == Len(assignNewState_w(w, v)) IN PySlice(v, nw, 2 * nw)

\* a loadStateDict that overwrites the values of the existing predictor and
\* so keeps the .grad its parameters hold
loadStateDictInPlace(pred, w) ==
    LET sh == Shapes(pred)
        d  == makeStateDict(sh, w)
    IN  [p \in 1..Len(sh) |-> [shape |-> sh[p], at |-> d[p], grad |-> pred[p].grad]]

\* phnn.py 175-180: a fresh predictor loaded with the state dict; its
\* parameters have no .grad yet
loadStateDict(pred, w) ==
    LET sh == Shapes(pred)
        d  == makeStateDict(sh, w)
    IN  [p \in 1..Len(sh) |-> [shape |-> sh[p], at |-> d[p], grad |-> NoGrad]]

\* phnn.py 207-208
setXi(w, wdot) == w \o wdot

\* loss.backward() (phnn.py 268): autograd's gradient of the batch loss, a
\* function of the parameter values and the fixed batch which the model
\* leaves abstract; .grad accumulates when it is already set
AutoGrad(pred, xy) ==
    [p \in 1..Len(pred) |->
        [ix \in Indices(pred[p].shape) |->
            (2 * pred[p].at[ix] + xy + p + RowMajor(pred[p].shape, ix)) % 3]]

backward(pred, xy) ==
    LET g == AutoGrad(pred, xy)
    IN  [p \in 1..Len(pred) |->
            [pred[p] EXCEPT !.grad =
                IF pred[p].grad = NoGrad THEN g[p]
                ELSE [ix \in Indices(pred[p].shape) |-> pred[p].grad[ix] + g[p][ix]]]]

Min(a, b) == IF a < b THEN a ELSE b

\* phnn.py 162
gradient_dJddw(hp, wdot) == [k \in 1..Len(wdot) |-> 2 * hp[2] * wdot[k]]

\* phnn.py 163-164: map(add, [p.grad ...], dJ_reg) pairs the p-th parameter
\* tensor with the p-th SCALAR of dJ_reg and stops at the shorter of the two
gradient_dJ(pred, hp, w) ==
    LET dJ_reg == [k \in 1..Len(w) |-> 2 * hp[3] * w[k]]
    IN  [p \in 1..Min(Len(pred), Len(dJ_reg)) |->
            [shape |-> pred[p].shape,
             at |-> [ix \in Indices(pred[p].shape) |-> pred[p].grad[ix] + dJ_reg[p]]]]

\* phnn.py 191-195, for a dJ list holding all self.len entries
flattenGradient(dJl) ==
    Concat([p \in 1..Len(dJl) |-> ViewFlat(dJl[p].shape, dJl[p].at)])

\* phnn.py 200-201
getConcatGradient(fdJ, fdJddw) == fdJ \o fdJddw

(***************************************************************************)
(* The structure matrix F.                                                 *)
(***************************************************************************)
Zeros(n) == [r \in 1..n |-> [c \in 1..n |-> 0]]
Eye(n) == [r \in 1..n |-> [c \in 1..n |-> IF r = c THEN 1 ELSE 0]]
Scale(k, M) == [r \in 1..Len(M) |-> [c \in 1..Len(M[r]) |-> k * M[r][c]]]
Hstack(A, B) == [r \in 1..Len(A) |-> A[r] \o B[r]]
Vstack(A, B) == A \o B

\* numpy_simple.py 120-125 (dense)
ham_mod_batch_F(x, bt) ==
    LET n  == Len(x) \div 2
        On == Zeros(n)
        In == Eye(n)
        B  == Scale(bt, Eye(n))
    IN  Vstack(Hstack(On, In), Hstack(Scale(-1, In), Scale(-1, B)))

\* a makeFMatrix whose damping block is written below the diagonal blocks' rows
makeFMatrixMisplaced(wdot, bt) ==
    LET n  == Len(wdot)
        i1 == << <<0, n>> >> \o [k \in 1..(n - 1) |-> <<k, n + k>>]
        i2 == << <<n, 0>> >> \o [k \in 1..(n - 1) |-> <<n + k, k>>]
        i3 == << <<n, n>> >> \o [k \in 1..(n - 1) |-> <<n + k, n>>]
        v  == [k \in 1..n |-> 1] \o [k \in 1..n |-> -1] \o [k \in 1..n |-> -bt]
    IN  [idx |-> i1 \o i2 \o i3, val |-> v, size |-> <<2 * n, 2 * n>>]

\* phnn.py 135-156 (sparse, coordinate form; indices are 0-based)
makeFMatrix(wdot, bt) ==
    LET n  == Len(wdot)
        i1 == << <<0, n>> >> \o [k \in 1..(n - 1) |-> <<k, n + k>>]
        i2 == << <<n, 0>> >> \o [k \in 1..(n - 1) |-> <<n + k, k>>]
        i3 == << <<n, n>> >> \o [k \in 1..(n - 1) |-> <<n + k, n + k>>]
        v  == [k \in 1..n |-> 1] \o [k \in 1..n |-> -1] \o [k \in 1..n |-> -bt]
    IN  [idx |-> i1 \o i2 \o i3, val |-> v, size |-> <<2 * n, 2 * n>>]

\* the dense matrix a coordinate-form sparse tensor stands for (entries at
\* the same place add up)
ToDense(S) ==
    [r \in 1..S.size[1] |-> [c \in 1..S.size[2] |->
        SumSeq([k \in 1..Len(S.idx) |->
                  IF S.idx[k] = <<r - 1, c - 1>> THEN S.val[k] ELSE 0])]]

(***************************************************************************)
(* numpy_simple.py 167-175: test.                                          *)
(***************************************************************************)
\* line 173: the condition under which a sample is counted
Counted(yy, ref) == yy[1] > yy[2] /\ ref[1] > ref[2]

test_count(x, Xh, yh) ==
    SumSeq([s \in 1..Len(yh) |->
              IF Counted(simple_net(Xh[s], x), yh[s]) THEN 1 ELSE 0])

\* line 175: count_predicted*100./n
test_accuracy(x, Xh, yh) ==
    IF Len(yh) = 0 THEN "ZeroDivisionError"
    ELSE [num |-> test_count(x, Xh, yh) * 100, den |-> Len(yh)]

TimeGrid(len) == [k \in 1..len |-> 2 * (k - 1)]

(***************************************************************************)
(* Values of the variables an entry point does not use.                    *)
(***************************************************************************)
IdleTrain ==
    /\ X = <<>> /\ y = <<>> /\ bs = 1 /\ x0arg = <<>>
    /\ N_batch = 0 /\ xf = <<>> /\ tf = <<>> /\ J = <<>> /\ xep = <<>> /\ Jep = <<>>
    /\ x0 = <<>> /\ j = 0 /\ j_it = 0

IdlePHNN ==
    /\ predictor = <<>> /\ flat_w = <<>> /\ flat_wdot = <<>> /\ beta = 0 /\ xi = <<>>
    /\ count = 0 /\ time = 0 /\ dJ = <<>> /\ dJddw = <<>> /\ flat_dJ = <<>>
    /\ flat_dJddw = <<>> /\ fixedxy = 0 /\ dxdt = <<>> /\ last = NoUpdate

IdleFit == loader = <<>> /\ iter_accuracy = 1 /\ e = 0 /\ e_it = 0 /\ reports = 0

IdleF == Fs = None /\ Fd = None

IdleTest == tx = <<>> /\ tXh = <<>> /\ tyh = <<>> /\ accuracy = None

(***************************************************************************)
(* numpy_simple.train as a state machine.                                  *)
(*   pc: "start" -> "epoch" <-> "batch" -> "trim" -> "done", or "error"    *)
(***************************************************************************)
InitTrain ==
    /\ prog = "train"
    /\ pc = "start"
    /\ \E n \in 0..MaxN : X = DataX(n) /\ y = DataY(n)
    /\ bs \in 1..MaxBs
    /\ epochs \in 0..MaxEpochs
    /\ x0arg \in StateVecs
    /\ hparams \in HParamSets
    /\ \E len \in 1..MaxT : t = TimeGrid(len)
    /\ flow \in Flows
    /\ N_batch = 0 /\ xf = <<>> /\ tf = <<>> /\ J = <<>> /\ xep = <<>> /\ Jep = <<>>
    /\ x0 = x0arg /\ i = 0 /\ j = 0 /\ i_it = 0 /\ j_it = 0 /\ sol = <<>>
    /\ calls = <<>>
    /\ IdlePHNN /\ IdleFit /\ IdleF /\ IdleTest

notTrain == <<phnnObj, fitVars, fVars, testVars>>

\* a restart of every step from the initial state (the second stored row)
StartStateInitial(rows) == rows[2]

\* line 149: the state the next integrator call starts from
StartState(rows) == Last(rows)

\* a batch loop that goes on from the value the inner loop left in i
NextBatchIndexShared(it, iv, nb) == (iv + 1) % nb

\* line 146: the batch index the outer range iterator yields next; the loop
\* variable i (rebound by the inner loop of lines 155-156) plays no part
NextBatchIndex(it, iv, nb) == it

\* a trimming of xf that drops the all-ones row only
TrimXfOnesOnly(rows) == SliceToLast(rows, 1)

\* lines 160-163: the final trimming
TrimXf(rows) == SliceToLast(rows, 2)
TrimJ(rows) == SliceToLast(rows, 1)
TrimTf(rows) == SliceToLast(rows, 1)
TrimXep(rows) == SliceToLast(rows, 1)

\* lines 135-144
TrainSetup ==
    /\ prog = "train" /\ pc = "start"
    /\ LET n_tot == Len(X)
           nb    == NBatch(n_tot, bs)
       IN  IF ~ReshapeOK(n_tot, nb, bs)
           THEN \* ValueError from reshape (line 137)
                /\ pc' = "error"
                /\ UNCHANGED <<N_batch, xf, tf, J, xep, Jep>>
           ELSE /\ N_batch' = nb
                /\ xf' = << Ones12, x0arg >>
                /\ tf' = << 0 >>
                /\ J' = << [num |-> 0, den |-> 1] >>
                /\ xep' = << Ones12, x0arg >>
                /\ IF nb = 0
                   THEN \* IndexError from Ub[0] (line 144)
                        /\ pc' = "error"
                        /\ Jep' = Jep
                   ELSE /\ pc' = "epoch"
                        /\ Jep' = << loss_batch(bs, x0arg, BatchRows(X, bs, 0),
                                                BatchRows(y, bs, 0),
                                                hparams[1], hparams[2], hparams[3]) >>
    /\ UNCHANGED <<prog, trainArgs, x0, i, j, i_it, j_it, sol, flow, calls, notTrain>>

\* line 145: for j in range(epochs)
EpochNext ==
    /\ prog = "train" /\ pc = "epoch"
    /\ IF j_it < epochs
       THEN /\ j' = j_it /\ j_it' = j_it + 1
            /\ i_it' = 0
            /\ pc' = "batch"
       ELSE /\ pc' = "trim"
            /\ UNCHANGED <<j, j_it, i_it>>
    /\ UNCHANGED <<prog, trainArgs, N_batch, xf, tf, J, xep, Jep, x0, i, sol,
                   flow, calls, notTrain>>

\* lines 146-157: one batch, the inner loss-recording loop included
BatchStepGuard == prog = "train" /\ pc = "batch" /\ i_it < N_batch

BatchStep ==
    /\ BatchStepGuard
    /\ LET ib  == NextBatchIndex(i_it, i, N_batch)
           U   == BatchRows(X, bs, ib)
           Yh  == BatchRows(y, bs, ib)
           st  == StartState(xf)
           res == odeint(flow, st, t, U)
           N   == Len(res)
           Ji  == [k \in 1..N |-> loss_batch(bs, res[k], U, Yh,
                                             hparams[1], hparams[2], hparams[3])]
       IN  /\ x0' = st
           /\ sol' = res
           /\ xf' = xf \o res
           /\ tf' = tf \o [k \in 1..Len(t) |-> t[k] + Last(tf)]
           /\ J' = J \o Ji
           /\ i' = IF N > 0 THEN N - 1 ELSE ib
           /\ calls' = Append(calls, [x0 |-> st, sol |-> res, batch |-> ib, epoch |-> j])
    /\ i_it' = i_it + 1
    /\ UNCHANGED <<prog, pc, trainArgs, N_batch, xep, Jep, j, j_it, flow, notTrain>>

\* lines 158-159: the epoch's snapshot, once the batch iterator is exhausted
EpochEnd ==
    /\ prog = "train" /\ pc = "batch"
    /\ i_it >= N_batch
    /\ xep' = Append(xep, Last(xf))
    /\ Jep' = Append(Jep, Last(J))
    /\ pc' = "epoch"
    /\ UNCHANGED <<prog, trainArgs, N_batch, xf, tf, J, x0, i, j, i_it, j_it, sol,
                   flow, calls, notTrain>>

\* lines 160-164
TrainReturn ==
    /\ prog = "train" /\ pc = "trim"
    /\ xf' = TrimXf(xf)
    /\ J' = TrimJ(J)
    /\ tf' = TrimTf(tf)
    /\ xep' = TrimXep(xep)
    /\ pc' = "done"
    /\ UNCHANGED <<prog, trainArgs, N_batch, Jep, x0, i, j, i_it, j_it, sol,
                   flow, calls, notTrain>>

(***************************************************************************)
(* class PHNN: construction (phnn.py 79-109).                              *)
(***************************************************************************)
Archs == { <<1, 1>>, <<1, 2>>, <<2, 1>>, <<2, 2>> }

\* a freshly initialised predictor (torch draws the values; v selects them)
NewPredictor(dense, v) ==
    LET sh == MLPShapes(dense)
    IN  [p \in 1..Len(sh) |->
            [shape |-> sh[p],
             at |-> [ix \in Indices(sh[p]) |-> (v + p + RowMajor(sh[p], ix)) % 3],
             grad |-> NoGrad]]

ParamCount(pred) == SumSeq([p \in 1..Len(pred) |-> Numel(pred[p].shape)])

Constructed(dense, v, d) ==
    /\ predictor = NewPredictor(dense, v)
    /\ flat_w = flattenParamVector(NewPredictor(dense, v))
    /\ flat_wdot = [k \in 1..ParamCount(NewPredictor(dense, v)) |-> (d + k) % 2]
    /\ xi = <<>> /\ count = 0 /\ time = 0
    /\ dJ = <<>> /\ dJddw = <<>> /\ flat_dJ = <<>> /\ flat_dJddw = <<>>
    /\ dxdt = <<>> /\ last = NoUpdate

(***************************************************************************)
(* PHNN.forward (phnn.py 257-291), step by step.                           *)
(*   pc: "idle" -> "loaded" -> "backed" -> "graded" -> "idle", or "raised" *)
(***************************************************************************)
MaxTime == 2       \* forward() calls

\* flat vectors handed to forward(): of the right length 2n and of wrong ones
XiArgs(n) ==
    { [k \in 1..len |-> (c + k) % 3] :
        len \in {n - 1, 2 * n - 1, 2 * n, 2 * n + 1}, c \in 0..1 }

\* lines 281-284
Derivative(gf, bt) ==
    LET n == Len(gf) \div 2
    IN  [k \in 1..Len(gf) |->
            IF k <= n THEN gf[n + k]
            ELSE IF k <= 2 * n THEN (-1) * gf[k - n] - bt * gf[k]
            ELSE 0]

InitForward ==
    /\ prog = "forward"
    /\ pc = "idle"
    /\ \E dense \in Archs, v \in 0..1, d \in 0..1 : Constructed(dense, v, d)
    /\ hparams \in HParamSets
    /\ beta \in 0..1
    /\ fixedxy \in 0..1
    /\ epochs = 0 /\ t = <<>> /\ i = 0 /\ i_it = 0 /\ sol = <<>>
    /\ flow = 1 /\ calls = <<>>
    /\ IdleTrain /\ IdleFit /\ IdleF /\ IdleTest

notPHNN == <<trainArgs, trainLocals, flow, calls, fitVars, fVars, testVars>>

\* lines 259-262: assignNewState(xi), then loadStateDict()
FwdUpdate ==
    /\ prog = "forward" /\ pc = "idle"
    /\ time < MaxTime
    /\ \E v \in XiArgs(ParamCount(predictor)) :
         LET w1 == assignNewState_w(flat_w, v)
             ok == makeStateDictOK(Shapes(predictor), w1)
         IN  /\ flat_w' = w1
             /\ flat_wdot' = assignNewState_wdot(flat_w, v)
             /\ predictor' = IF ok THEN loadStateDict(predictor, w1) ELSE predictor
             /\ pc' = IF ok THEN "loaded" ELSE "raised"
             /\ last' = [arg |-> v, w |-> flat_w, wdot |-> flat_wdot, pred |-> predictor,
                         raised |-> IF ok THEN None ELSE "RuntimeError"]
    /\ UNCHANGED <<prog, beta, xi, count, time, dJ, dJddw, flat_dJ, flat_dJddw,
                   fixedxy, dxdt, notPHNN>>

\* lines 266-268: loss on the fixed batch and its backward pass
FwdBackward ==
    /\ prog = "forward" /\ pc = "loaded"
    /\ predictor' = backward(predictor, fixedxy)
    /\ pc' = "backed"
    /\ UNCHANGED <<prog, flat_w, flat_wdot, beta, xi, count, time, dJ, dJddw, flat_dJ,
                   flat_dJddw, fixedxy, dxdt, last, notPHNN>>

\* lines 276-277: gradient(), assignFlatGradient()
FwdGradient ==
    /\ prog = "forward" /\ pc = "backed"
    /\ dJ' = gradient_dJ(predictor, hparams, flat_w)
    /\ dJddw' = gradient_dJddw(hparams, flat_wdot)
    /\ flat_dJ' = flattenGradient(gradient_dJ(predictor, hparams, flat_w))
    /\ flat_dJddw' = gradient_dJddw(hparams, flat_wdot)
    /\ pc' = "graded"
    /\ UNCHANGED <<prog, predictor, flat_w, flat_wdot, beta, xi, count, time,
                   fixedxy, dxdt, last, notPHNN>>

\* lines 278-291
FwdReturn ==
    /\ prog = "forward" /\ pc = "graded"
    /\ dxdt' = Derivative(getConcatGradient(flat_dJ, flat_dJddw), beta)
    /\ time' = time + 1
    /\ pc' = "idle"
    /\ UNCHANGED <<prog, predictor, flat_w, flat_wdot, beta, xi, count, dJ, dJddw,
                   flat_dJ, flat_dJddw, fixedxy, last, notPHNN>>

\* lines 203-205, called between integrator runs (fit, line 315)
FixInputOutput ==
    /\ prog = "forward" /\ pc = "idle"
    /\ time < MaxTime
    /\ \E xy \in 0..1 : xy # fixedxy /\ fixedxy' = xy
    /\ UNCHANGED <<prog, pc, predictor, flat_w, flat_wdot, beta, xi, count, time, dJ,
                   dJddw, flat_dJ, flat_dJddw, dxdt, last, notPHNN>>

(***************************************************************************)
(* PHNN.fit (phnn.py 293-325) as a state machine.                          *)
(*   pc: "fstart" -> "fepoch" <-> "fbatch" <-> "fsolved", then "done"      *)
(***************************************************************************)
MaxLoader == 3     \* batches the trainloader yields per epoch

\* The integrator (scipy solve_ivp), line 317: its result holds the start
\* state first and the final state last; the flow is abstract as for odeint.
PFlowStep(f, x, xy) == [k \in 1..Len(x) |-> (x[k] + f + xy) % 3]
solve_ivp(f, start, xy) == << start, PFlowStep(f, start, xy) >>

\* The attributes one forward(t, v) leaves behind (lines 259-277)
ForwardAttrs(pred, w, v, xy, hp) ==
    LET w1 == assignNewState_w(w, v)
        wd == assignNewState_wdot(w, v)
        pr == backward(loadStateDict(pred, w1), xy)
    IN  [flat_w |-> w1, flat_wdot |-> wd, predictor |-> pr,
         dJ |-> gradient_dJ(pr, hp, w1), dJddw |-> gradient_dJddw(hp, wd)]

InitFit ==
    /\ prog = "fit"
    /\ pc = "fstart"
    /\ \E dense \in Archs, v \in 0..1, d \in 0..1 : Constructed(dense, v, d)
    /\ hparams \in HParamSets
    /\ beta = 1
    /\ fixedxy = 0
    /\ epochs \in 0..MaxEpochs
    /\ \E nb \in 0..MaxLoader : loader = [k \in 1..nb |-> k % 2]
    /\ iter_accuracy \in {1, 2}
    /\ t = TimeGrid(2)
    /\ flow \in Flows
    /\ e = 0 /\ e_it = 0 /\ reports = 0 /\ i = 0 /\ i_it = 0 /\ sol = <<>>
    /\ calls = <<>>
    /\ X = <<>> /\ y = <<>> /\ bs = 1
    /\ x0arg = setXi(flat_w, flat_wdot)   \* the state the object holds on entry
    /\ N_batch = 0 /\ xf = <<>> /\ tf = <<>> /\ J = <<>> /\ xep = <<>> /\ Jep = <<>>
    /\ x0 = <<>> /\ j = 0 /\ j_it = 0
    /\ IdleF /\ IdleTest

notFit == <<trainArgs, N_batch, xf, tf, J, xep, Jep, x0, j, j_it, flow, fVars, testVars>>

\* lines 304-309
FitSetup ==
    /\ prog = "fit" /\ pc = "fstart"
    /\ xi' = setXi(flat_w, flat_wdot)
    /\ pc' = "fepoch"
    /\ UNCHANGED <<prog, predictor, flat_w, flat_wdot, beta, count, time, dJ, dJddw,
                   flat_dJ, flat_dJddw, fixedxy, dxdt, last, i, i_it, sol, calls,
                   fitVars, notFit>>

\* line 311: for e in range(epoch)
FitEpochNext ==
    /\ prog = "fit" /\ pc = "fepoch"
    /\ IF e_it < epochs
       THEN /\ e' = e_it /\ e_it' = e_it + 1
            /\ i_it' = 0
            /\ pc' = "fbatch"
       ELSE /\ pc' = "done"
            /\ UNCHANGED <<e, e_it, i_it>>
    /\ UNCHANGED <<prog, phnnObj, i, sol, calls, loader, iter_accuracy, reports, notFit>>

\* lines 312-317: the next batch is fixed and the integrator runs on it from
\* self.xi, evaluating forward() at the start state and on to the final one
FitIntegrateGuard == prog = "fit" /\ pc = "fbatch" /\ i_it < Len(loader)

FitIntegrate ==
    /\ FitIntegrateGuard
    /\ LET xy  == loader[i_it + 1]
           res == solve_ivp(flow, xi, xy)
           fa  == ForwardAttrs(predictor, flat_w, Last(res), xy, hparams)
       IN  /\ i' = i_it
           /\ fixedxy' = xy
           /\ sol' = res
           /\ flat_w' = fa.flat_w
           /\ flat_wdot' = fa.flat_wdot
           /\ predictor' = fa.predictor
           /\ dJ' = fa.dJ
           /\ dJddw' = fa.dJddw
           /\ flat_dJ' = flattenGradient(fa.dJ)
           /\ flat_dJddw' = fa.dJddw
           /\ dxdt' = Derivative(getConcatGradient(flattenGradient(fa.dJ), fa.dJddw), beta)
           /\ time' = time + Len(res)
           /\ calls' = Append(calls, [x0 |-> xi, sol |-> res, batch |-> i_it, epoch |-> e])
    /\ i_it' = i_it + 1
    /\ pc' = "fsolved"
    /\ UNCHANGED <<prog, beta, xi, count, last, fitVars, notFit>>

\* lines 318-325: the final state becomes self.xi and is loaded into the
\* predictor; every iter_accuracy-th step reports the accuracy
FitReassign ==
    /\ prog = "fit" /\ pc = "fsolved"
    /\ LET v  == Last(sol)
           w1 == assignNewState_w(flat_w, v)
       IN  /\ xi' = v
           /\ flat_w' = w1
           /\ flat_wdot' = assignNewState_wdot(flat_w, v)
           /\ predictor' = loadStateDict(predictor, w1)
           /\ last' = [arg |-> v, w |-> flat_w, wdot |-> flat_wdot, pred |-> predictor,
                       raised |-> None]
    /\ count' = count + 1
    /\ reports' = IF (count + 1) % iter_accuracy = 0 /\ count + 1 # 0
                  THEN reports + 1 ELSE reports
    /\ pc' = "fbatch"
    /\ UNCHANGED <<prog, beta, time, dJ, dJddw, flat_dJ, flat_dJddw, fixedxy, dxdt,
                   i, i_it, sol, calls, loader, iter_accuracy, e, e_it, notFit>>

\* the trainloader is exhausted: back to the epoch loop
FitEpochEnd ==
    /\ prog = "fit" /\ pc = "fbatch"
    /\ i_it >= Len(loader)
    /\ pc' = "fepoch"
    /\ UNCHANGED <<prog, phnnObj, i, i_it, sol, calls, fitVars, notFit>>

(***************************************************************************)
(* The structure matrices, built from a constructed PHNN's state.          *)
(***************************************************************************)
MaxBeta == 2       \* damping coefficient beta

InitF ==
    /\ prog = "F"
    /\ pc = "idle"
    /\ \E dense \in Archs, v \in 0..1, d \in 0..1 : Constructed(dense, v, d)
    /\ beta \in 0..MaxBeta
    /\ hparams \in HParamSets
    /\ fixedxy = 0
    /\ epochs = 0 /\ t = <<>> /\ i = 0 /\ i_it = 0 /\ sol = <<>>
    /\ flow = 1 /\ calls = <<>>
    /\ IdleTrain /\ IdleFit /\ IdleF /\ IdleTest

\* phnn.py 130-158
MakeFMatrix ==
    /\ prog = "F" /\ pc \in {"idle", "dense"}
    /\ Fs' = makeFMatrix(flat_wdot, beta)
    /\ pc' = IF pc = "idle" THEN "sparse" ELSE "both"
    /\ UNCHANGED <<prog, trainArgs, trainLocals, flow, calls, phnnObj, fitVars,
                   Fd, testVars>>

\* numpy_simple.py 118-125, on the state x = [w, wdot]
HamModBatch ==
    /\ prog = "F" /\ pc \in {"idle", "sparse"}
    /\ Fd' = ham_mod_batch_F(setXi(flat_w, flat_wdot), beta)
    /\ pc' = IF pc = "idle" THEN "dense" ELSE "both"
    /\ UNCHANGED <<prog, trainArgs, trainLocals, flow, calls, phnnObj, fitVars,
                   Fs, testVars>>

(***************************************************************************)
(* numpy_simple.test applied to drawn inputs.                              *)
(***************************************************************************)
MaxSamples == 2    \* samples in the evaluation set

\* weights of the linear predictor: class 0 always, class 1 always, or by input
TestWeights ==
    { <<0, 0, 1, 0, 0, 0>>, <<0, 0, 0, 0, 0, 1>>, <<1, 0, 0, 0, 1, 0>>, <<0, 0, 0, 0, 0, 0>> }
TestSamples ==
    { [u |-> uu, ref |-> rr] : uu \in { <<1, 0>>, <<0, 1>> }, rr \in { <<1, 0>>, <<0, 1>> } }

RECURSIVE SeqsOf(_, _)
SeqsOf(S, n) ==
    IF n = 0 THEN { <<>> }
    ELSE { Append(q, a) : q \in SeqsOf(S, n - 1), a \in S }

InitTest ==
    /\ prog = "test"
    /\ pc = "start"
    /\ tx \in TestWeights
    /\ \E n \in 0..MaxSamples : \E q \in SeqsOf(TestSamples, n) :
          /\ tXh = [s \in 1..n |-> q[s].u]
          /\ tyh = [s \in 1..n |-> q[s].ref]
    /\ accuracy = None
    /\ hparams = <<1, 1, 0>> /\ epochs = 0 /\ t = <<>> /\ i = 0 /\ i_it = 0 /\ sol = <<>>
    /\ flow = 1 /\ calls = <<>>
    /\ IdleTrain /\ IdlePHNN /\ IdleFit /\ IdleF

\* lines 169-175 (and the return of line 187)
RunTest ==
    /\ prog = "test" /\ pc = "start"
    /\ accuracy' = test_accuracy(tx, tXh, tyh)
    /\ pc' = IF Len(tyh) = 0 THEN "error" ELSE "done"
    /\ UNCHANGED <<prog, trainArgs, trainLocals, flow, calls, phnnObj, fitVars, fVars,
                   tx, tXh, tyh>>

(***************************************************************************)
(* Specifications.                                                         *)
(***************************************************************************)
\* training runs: numpy_simple.train or PHNN.fit
Init == InitTrain \/ InitFit

Next ==
    \/ TrainSetup
    \/ EpochNext
    \/ BatchStep
    \/ EpochEnd
    \/ TrainReturn
    \/ FitSetup
    \/ FitEpochNext
    \/ FitIntegrate
    \/ FitReassign
    \/ FitEpochEnd

Spec == Init /\ [][Next]_vars

\* calls of PHNN.forward on a constructed object
NextForward ==
    \/ FwdUpdate
    \/ FwdBackward
    \/ FwdGradient
    \/ FwdReturn
    \/ FixInputOutput

SpecForward == InitForward /\ [][NextForward]_vars

\* the structure matrices
NextF == MakeFMatrix \/ HamModBatch

SpecF == InitF /\ [][NextF]_vars

\* the accuracy evaluator
NextTest == RunTest

SpecTest == InitTest /\ [][NextTest]_vars

(***************************************************************************)
(* Properties.                                                             *)
(***************************************************************************)
\* batches per epoch of the running entry point
BatchesPerEpoch == IF prog = "train" THEN N_batch ELSE Len(loader)

\* C1: the first integrator call starts from the initial state the caller
\* supplied, and each later call (the first of a new epoch too) starts from
\* the final state the previous call returned.
C1_StateCarried ==
    \A k \in 1..Len(calls) :
        calls[k].x0 = IF k = 1 THEN x0arg ELSE Last(calls[k - 1].sol)

\* C1 witness: a train run whose second epoch has begun from a state that is
\* neither the initial state nor the all-ones row
C1_Witness ==
    /\ prog = "train"
    /\ Len(calls) >= 3
    /\ Last(calls).epoch = 1 /\ Last(calls).batch = 0
    /\ Last(calls).x0 # x0arg /\ Last(calls).x0 # Ones12
    /\ Last(calls).x0 = Last(calls[Len(calls) - 1].sol)

\* the state and loss at the end of epoch k (1-based) of a train run
EpochEndState(k) == Last(calls[k * N_batch].sol)
EpochEndLoss(k) ==
    loss_batch(bs, EpochEndState(k), BatchRows(X, bs, calls[k * N_batch].batch),
               BatchRows(y, bs, calls[k * N_batch].batch),
               hparams[1], hparams[2], hparams[3])

\* C2: the record train returns holds one (state, loss) snapshot per epoch
\* end, at matching positions of xep and Jep (after d = 0 or 1 leading entries
\* for the initial state), the last epoch's included.
C2_EpochRecordComplete ==
    (prog = "train" /\ pc = "done") =>
        \E d \in 0..1 :
            /\ Len(xep) = d + epochs
            /\ Len(Jep) >= d + epochs
            /\ \A k \in 1..epochs :
                   /\ xep[d + k] = EpochEndState(k)
                   /\ Jep[d + k] = EpochEndLoss(k)

\* the class with the larger output, when there is one
SameClass(yy, ref) ==
    \/ yy[1] > yy[2] /\ ref[1] > ref[2]
    \/ yy[2] > yy[1] /\ ref[2] > ref[1]

Matching(x, Xh, yh) ==
    Cardinality({ s \in 1..Len(yh) : SameClass(simple_net(Xh[s], x), yh[s]) })

\* C3: test counts a sample exactly when predicted and reference class agree,
\* for either class, so it returns 100 * (matching samples) / n.
C3_CountsEitherClass ==
    (prog = "test" /\ pc = "done") =>
        accuracy = [num |-> 100 * Matching(tx, tXh, tyh), den |-> Len(tyh)]

\* every integrator call so far took the batch and epoch its position gives
C4_InOrder ==
    \A k \in 1..Len(calls) :
        /\ calls[k].batch = (k - 1) % BatchesPerEpoch
        /\ calls[k].epoch = (k - 1) \div BatchesPerEpoch

C4_Count == (pc = "done") => Len(calls) = epochs * BatchesPerEpoch

\* a run that has not ended can take its next step (the two integrator
\* steps are enabled exactly when their guards hold: the rest of each only
\* assigns)
C4_NotStuck ==
    (pc \notin {"done", "error"}) =>
        \/ ENABLED TrainSetup \/ ENABLED EpochNext \/ BatchStepGuard
        \/ ENABLED EpochEnd \/ ENABLED TrainReturn
        \/ ENABLED FitSetup \/ ENABLED FitEpochNext \/ FitIntegrateGuard
        \/ ENABLED FitReassign \/ ENABLED FitEpochEnd

\* an upper bound on the steps a run has left, from its loop iterators alone
C4_StepsLeft ==
    LET nb   == IF prog = "train" THEN NBatch(Len(X), bs) ELSE Len(loader)
        per  == 2 * nb + 2
        eit  == IF prog = "train" THEN j_it ELSE e_it
        left == (epochs - eit) * per
    IN  CASE pc \in {"done", "error"} -> 0
          [] pc = "trim" -> 1
          [] pc \in {"epoch", "fepoch"} -> left + 2
          [] pc \in {"batch", "fbatch"} -> left + 3 + 2 * (nb - i_it)
          [] pc = "fsolved" -> left + 4 + 2 * (nb - i_it)
          [] OTHER -> epochs * per + 3

\* C4: a training run ends (every step lowers the bound on the steps left,
\* and a run that has not ended is never stuck) after exactly epochs x N_batch
\* integrator calls, one per batch of each epoch in index order, whatever the
\* losses, the flow and the accuracy reports are.
C4_EveryBatchOnce ==
    /\ [](C4_InOrder /\ C4_Count /\ C4_NotStuck /\ C4_StepsLeft >= 0)
    /\ [][C4_StepsLeft' < C4_StepsLeft]_vars

\* C4 witness: a finished train run of two epochs over several batches, whose
\* inner loss loop rebound i on every step
C4_Witness ==
    /\ prog = "train" /\ pc = "done"
    /\ epochs = 2 /\ N_batch >= 3 /\ Len(t) >= 2
    /\ Len(calls) = 2 * N_batch
    /\ i = Len(t) - 1

\* C5: when bs does not divide the number of samples, train is rejected with
\* an error before any integrator step (the first of the two behaviours the
\* claim allows is the one the reshape gives).
C5_UnevenRejected ==
    (prog = "train" /\ Len(X) % bs # 0) =>
        /\ pc \in {"start", "error"}
        /\ calls = <<>>
        /\ xf = <<>>

\* C5 witness: the rejected run of bs = 4 on 10 samples
C5_Witness ==
    /\ prog = "train" /\ pc = "error"
    /\ Len(X) = 10 /\ bs = 4

\* C6: a flat state whose length is not 2n makes the state update fail with
\* a shape error and leaves flat_w, flat_wdot and the predictor as they were.
C6_BadLengthRejected ==
    (prog = "forward" /\ pc \in {"loaded", "raised"}
        /\ Len(last.arg) # 2 * ParamCount(last.pred)) =>
        /\ last.raised = "RuntimeError"
        /\ flat_w = last.w
        /\ flat_wdot = last.wdot
        /\ predictor = last.pred

\* C7: makeStateDict applied to flattenParamVector's vector gives back every
\* parameter, in order, with its shape and its values element for element.
C7_RoundTrip ==
    (prog = "forward") =>
        LET sh == Shapes(predictor)
            fw == flattenParamVector(predictor)
            d  == makeStateDict(sh, fw)
        IN  /\ Len(fw) = ParamCount(predictor)
            /\ makeStateDictOK(sh, fw)
            /\ \A p \in 1..Len(predictor) :
                   /\ DOMAIN d[p] = Indices(predictor[p].shape)
                   /\ \A ix \in Indices(predictor[p].shape) :
                          d[p][ix] = predictor[p].at[ix]

\* C7 witness: a loaded predictor with a 2 x 2 weight whose off-diagonal
\* elements differ, followed by a bias
C7_Witness ==
    /\ prog = "forward" /\ pc = "loaded"
    /\ Len(predictor) = 2
    /\ predictor[1].shape = <<2, 2>>
    /\ predictor[1].at[<<1, 2>>] # predictor[1].at[<<2, 1>>]
    /\ predictor[2].at[<<1>>] # predictor[1].at[<<1, 1>>]

\* the 2n x 2n matrix [[0, I], [-I, -beta*I]]
BlockF(n, bt) ==
    [r \in 1..(2 * n) |-> [c \in 1..(2 * n) |->
        IF r <= n /\ c = n + r THEN 1
        ELSE IF r > n /\ c = r - n THEN -1
        ELSE IF r > n /\ c = r THEN -bt
        ELSE 0]]

\* C8: the dense matrix of ham_mod_batch and the sparse one of makeFMatrix
\* (3n stored entries at 3n places) are [[0, I], [-I, -beta*I]], whatever
\* the weights are.
C8_StructureMatrix ==
    (prog = "F") =>
        LET n == ParamCount(predictor)
        IN  /\ pc \in {"sparse", "both"} =>
                /\ Len(Fs.idx) = 3 * n
                /\ Len(Fs.val) = 3 * n
                /\ Cardinality({ Fs.idx[k] : k \in 1..Len(Fs.idx) }) = 3 * n
                /\ ToDense(Fs) = BlockF(n, beta)
            /\ pc \in {"dense", "both"} => Fd = BlockF(n, beta)

\* C8 witness: both matrices built for n = 4 and beta = 2
C8_Witness ==
    /\ prog = "F" /\ pc = "both"
    /\ ParamCount(predictor) = 4 /\ beta = 2
    /\ Fd[5][5] = -2 /\ Fd[1][5] = 1 /\ Fd[5][1] = -1

\* the auto-differentiated gradients, flattened in parameter order
FlatAutoGrad == Concat([p \in 1..Len(predictor) |->
                          ViewFlat(predictor[p].shape, predictor[p].grad)])

\* C9: after gradient and flattenGradient (on a flat state of the right
\* length 2n), entry k of the weight half is the auto-differentiated gradient
\* of weight k plus 2*c*flat_w[k], and entry k of the velocity half is
\* 2*b*flat_wdot[k].
C9_OwnRegularization ==
    (prog = "forward" /\ pc = "graded"
        /\ Len(last.arg) = 2 * ParamCount(predictor)) =>
        /\ Len(flat_dJ) = Len(flat_w)
        /\ \A k \in 1..Len(flat_dJ) :
               flat_dJ[k] = FlatAutoGrad[k] + 2 * hparams[3] * flat_w[k]
        /\ Len(flat_dJddw) = Len(flat_wdot)
        /\ \A k \in 1..Len(flat_dJddw) :
               flat_dJddw[k] = 2 * hparams[2] * flat_wdot[k]

\* C10: the returned tf, xf and J have one length, and entry k of each
\* belongs to the k-th row the integrator put out (row r of call c): the
\* row itself, its loss on the batch of call c, and its accumulated time.
C10_TrajectoryAligned ==
    (prog = "train" /\ pc = "done" /\ Len(calls) >= 1) =>
        /\ Len(tf) = Len(xf)
        /\ Len(J) = Len(xf)
        /\ \A k \in 1..Len(xf) :
               LET c == ((k - 1) \div Len(t)) + 1
                   r == ((k - 1) % Len(t)) + 1
               IN  /\ xf[k] = calls[c].sol[r]
                   /\ J[k] = loss_batch(bs, xf[k], BatchRows(X, bs, calls[c].batch),
                                        BatchRows(y, bs, calls[c].batch),
                                        hparams[1], hparams[2], hparams[3])
                   /\ tf[k] = t[r] + (c - 1) * Last(t)

\* C10 witness: a returned trajectory over several calls and batches
C10_Witness ==
    /\ prog = "train" /\ pc = "done"
    /\ Len(calls) >= 4 /\ N_batch >= 2 /\ Len(t) >= 2
    /\ Len(xf) >= 7
    /\ xf[1] # xf[3]
    /\ J[1] # J[3]

\* forward(t, arg) (phnn.py 257-291) run in one piece on an object whose
\* predictor is pred and whose flat weights are w
ForwardFrom(pred, w, arg, xy, hp, bt) ==
    LET w1  == assignNewState_w(w, arg)
        wd1 == assignNewState_wdot(w, arg)
        p1  == backward(loadStateDict(pred, w1), xy)
        fdJ == flattenGradient(gradient_dJ(p1, hp, w1))
        fdd == gradient_dJddw(hp, wd1)
    IN  Derivative(getConcatGradient(fdJ, fdd), bt)

\* the object as __init__ leaves it (phnn.py 89, 99): no evaluation yet
FreshPredictor ==
    NewPredictor(CHOOSE dense \in Archs : MLPShapes(dense) = Shapes(predictor), 0)

\* C11: the derivative a forward() call returns is the one a never-evaluated
\* object of the same architecture returns for the same flat state, fixed
\* batch and hyperparameters: nothing of an earlier evaluation (its weights,
\* its gradients, the number of calls) enters it, so equal state and batch
\* give equal derivatives whatever was evaluated in between.
C11_NoAccumulation ==
    [][(prog = "forward" /\ pc = "graded" /\ pc' = "idle") =>
          dxdt' = ForwardFrom(FreshPredictor, flattenParamVector(FreshPredictor),
                              last.arg, fixedxy, hparams, beta)]_vars

\* C11 witness: a second derivative returned, for a state other than the one
\* evaluated before, by an object whose previous predictor held the gradients
\* of that earlier backward pass
C11_Witness ==
    /\ prog = "forward" /\ pc = "idle" /\ time = 2
    /\ last.raised = None
    /\ Len(last.arg) = 2 * ParamCount(predictor)
    /\ last.w # flat_w
    /\ last.pred[1].grad # NoGrad
    /\ \E k \in 1..Len(dxdt) : dxdt[k] # 0

=============================================================================
